---------------------------- MODULE Spec2Model ----------------------------
(***************************************************************************)
(* Model of lib/inputstreamhelper/utils.py: the streaming downloader       *)
(* (_http_request, http_download), the archive extractor (unzip) and the   *)
(* temp directory (temp_path, update_temp_path).                           *)
(*                                                                         *)
(* SpecDownload follows one http_download call statement by statement, with*)
(* the user's cancel button as the only concurrent actor.  SpecUnzip       *)
(* follows a sequence of unzip calls over one file system.  SpecTemp       *)
(* follows downloads into the temp directory and changes of its setting.   *)
(***************************************************************************)
EXTENDS Integers, Sequences, FiniteSets, TLC

VARIABLES
    \* ---- http_download: arguments and environment
    pc,              \* position in http_download
    urlopen,         \* what urlopen(url, timeout=5) does for this url
    body,            \* the bytes the server delivers
    content_length,  \* req.info().get('content-length'): <<>> (None) or <<n>>
    checksum_arg,    \* the checksum argument as passed by the caller
    hash_alg,        \* the hash_alg argument
    dl_size,         \* the dl_size argument: <<>> (None) or <<n>>
    \* ---- http_download: locals and the objects it holds
    checksum,        \* the local checksum (line 75 may reset it to None)
    calc_checksum,   \* the running hash object, NoHash while unbound
    req,             \* the response stream: "none", "open", "closed"
    unread,          \* the bytes of the body not yet read from req
    total_length,    \* float(content-length)
    progress,        \* the progress dialog: "none", "created", "closed"
    canceled,        \* the dialog's cancellation flag, set by the user
    image,           \* the content of the file at download_path
    file,            \* the destination file: "absent", "open", "closed"
    size,            \* running byte count
    percent,         \* last percentage computed
    updates,         \* the percentages passed to progress.update, in order
    nreads,          \* number of req.read calls made
    npolls,          \* number of progress.iscanceled calls made
    readsAtCancel,   \* nreads when the flag was raised, -1 while it is not
    retval,          \* the value http_download returned, Unset before
    outcome,         \* which return statement was taken
    fault,           \* the exception that left http_download, "none" if none
    requests,        \* number of urlopen attempts
    notified,        \* number of ok_dialog notifications shown
    events,          \* the calls made on the stream, file, hash, dialog and log
    \* ---- unzip
    upc,             \* position in unzip
    fs,              \* the file system: location -> node
    result_default,  \* the list bound to unzip's default argument result=[]
    archive,         \* zip_obj.namelist() of the current call
    file_to_unzip,   \* the filter argument of the current call
    explicit,        \* TRUE when the caller passed its own result list
    result,          \* the list the current call appends to
    idx,             \* index of the next entry of namelist()
    extracted,       \* names this call has extracted, in order
    elog,            \* per extracted entry: what was tested, removed, written
    uret,            \* the value unzip returned
    ncalls,          \* number of unzip calls started
    \* ---- temp_path and update_temp_path
    tpc,             \* "idle", then how the last update_temp_path call ended
    stored,          \* the stored 'temp_path' setting, <<>> while unset
    tdirs,           \* the directories that exist
    tfiles,          \* the files that exist
    tlast,           \* the last update_temp_path call: argument, paths, files
    nupdates         \* number of update_temp_path calls made

dvars == <<pc, urlopen, body, content_length, checksum_arg, hash_alg, dl_size,
           checksum, calc_checksum, req, unread, total_length, progress,
           canceled, image, file, size, percent, updates, nreads, npolls,
           readsAtCancel, retval, outcome, fault, requests, notified,
           events>>

uvars == <<upc, fs, result_default, archive, file_to_unzip, explicit, result,
           idx, extracted, elog, uret, ncalls>>

tvars == <<tpc, stored, tdirs, tfiles, tlast, nupdates>>

vars == <<dvars, uvars, tvars>>

---------------------------------------------------------------------------
\* Bounds of the model

\* longest response body, in bytes
MaxBody == 3

\* line 90: chunk_size = 32 * 1024, scaled down to the model's body lengths
chunk_size == 2

\* longest archive, in entries
MaxEntries == 2

\* number of unzip calls followed
MaxCalls == 2

\* number of update_temp_path calls followed
MaxUpdates == 2

---------------------------------------------------------------------------
\* Values

None == "None"
NoHash == [alg |-> "none", h |-> 0]
download_path == "temp/file"

Bytes == {0, 1}

Bodies == UNION {[1..n -> Bytes] : n \in 0..MaxBody}

\* a declared content length may be absent, zero, or wrong in either direction
Headers == {<<>>} \cup {<<n>> : n \in 0..(MaxBody + 1)}

Sizes == {<<>>} \cup {<<n>> : n \in 0..MaxBody}

HexDigit == <<"0", "1", "2", "3", "4", "5", "6", "7",
              "8", "9", "a", "b", "c", "d", "e", "f">>

Checksums == {None, "", "3", "d", "D"}

HashAlgs == {"sha1", "md5", "sha256"}

\* urlopen raises URLError (no connection, timeout), raises HTTPError (the
\* default opener does for an error status), or returns a response whose
\* getcode() is the given status
UrlOutcomes == {[kind |-> "URLError", code |-> 0],
                [kind |-> "HTTPError", code |-> 404],
                [kind |-> "HTTPError", code |-> 503],
                [kind |-> "response", code |-> 200],
                [kind |-> "response", code |-> 404]}

\* Python truthiness of the optional arguments
TruthyStr(s) == s # None /\ s # ""

TruthyNum(n) == n # <<>> /\ n[1] # 0

Min(a, b) == IF a < b THEN a ELSE b

---------------------------------------------------------------------------
\* hashlib, reduced to 4-bit digests: two different incremental hashes whose
\* hexdigest() is one lowercase hex digit

HashNew(alg) == [alg |-> alg, h |-> IF alg = "sha1" THEN 5 ELSE 9]

HashByte(st, b) ==
    IF st.alg = "sha1"
    THEN [st EXCEPT !.h = (st.h * 3 + b + 1) % 16]
    ELSE [st EXCEPT !.h = (st.h * 5 + b + 2) % 16]

RECURSIVE HashUpdate(_, _)
HashUpdate(st, bytes) ==
    IF bytes = <<>> THEN st
    ELSE HashUpdate(HashByte(st, Head(bytes)), Tail(bytes))

HexDigest(st) == HexDigit[st.h + 1]

\* the digest of a whole byte string, hashed in one piece
DigestOf(alg, bytes) == HexDigest(HashUpdate(HashNew(alg), bytes))

---------------------------------------------------------------------------
\* Return values of http_download

Unset == <<>>
RetNone == <<"None">>
RetFalse == <<"False">>
RetSuccess == <<"True", download_path>>

\* the prefix req.read(chunk_size) returns
NextChunk(stream) == SubSeq(stream, 1, Min(chunk_size, Len(stream)))

\* Percent with the remainder taken for the quotient
PercentByRemainder(sz, total) == (sz * 100) % total

\* line 101: int(size * 100 / total_length), true division then truncation
Percent(sz, total) == (sz * 100) \div total

\* line 113: Stat(download_path).st_size()
StatSize == Len(image)

---------------------------------------------------------------------------
\* http_download

DInit ==
    /\ pc = "idle"
    /\ urlopen = [kind |-> "none", code |-> 0]
    /\ body = <<>>
    /\ content_length = <<>>
    /\ checksum_arg = None
    /\ hash_alg = "sha1"
    /\ dl_size = <<>>
    /\ checksum = None
    /\ calc_checksum = NoHash
    /\ req = "none"
    /\ unread = <<>>
    /\ total_length = 0
    /\ progress = "none"
    /\ canceled = FALSE
    /\ image = <<>>
    /\ file = "absent"
    /\ size = 0
    /\ percent = 0
    /\ updates = <<>>
    /\ nreads = 0
    /\ npolls = 0
    /\ readsAtCancel = -1
    /\ retval = Unset
    /\ outcome = "none"
    /\ fault = "none"
    /\ requests = 0
    /\ notified = 0
    /\ events = <<>>

\* one call made on a collaborator: its name and its argument (a chunk, or
\* the percentage as <<p>>)
Ev(op, arg) == [op |-> op, arg |-> arg]

\* LocalChecksum with the reset of line 75 lost
LocalChecksumKept(c, a) == c

\* lines 67-75: the local checksum after the choice of the algorithm
LocalChecksum(c, a) ==
    IF TruthyStr(c) /\ ~(a = "sha1" \/ a = "md5") THEN None ELSE c

\* lines 67-72: the hash object, bound only for a supported algorithm
LocalHash(c, a) ==
    IF TruthyStr(c) /\ (a = "sha1" \/ a = "md5") THEN HashNew(a) ELSE NoHash

\* Absorb that leaves out a final, shorter chunk
AbsorbFullChunksOnly(st, chunk) ==
    IF TruthyStr(checksum) /\ Len(chunk) = chunk_size
    THEN HashUpdate(st, chunk)
    ELSE st

\* lines 98-99: if checksum: calc_checksum.update(chunk)
Absorb(st, chunk) ==
    IF TruthyStr(checksum) THEN HashUpdate(st, chunk) ELSE st

\* Counted with the requested length in place of the chunk's
CountedAsRequested(chunk) == chunk_size

\* line 100: size += len(chunk)
Counted(chunk) == Len(chunk)

\* lines 65-75: the call and the choice of the hash object
Call ==
    /\ pc = "idle"
    /\ \E u \in UrlOutcomes, b \in Bodies, cl \in Headers,
          c \in Checksums, a \in HashAlgs, d \in Sizes :
        /\ urlopen' = u
        /\ body' = b
        /\ content_length' = cl
        /\ checksum_arg' = c
        /\ hash_alg' = a
        /\ dl_size' = d
        /\ checksum' = LocalChecksum(c, a)
        /\ calc_checksum' = LocalHash(c, a)
        /\ events' = IF TruthyStr(c) /\ ~(a = "sha1" \/ a = "md5")
                     THEN <<Ev("log", <<>>)>>
                     ELSE <<>>
    /\ pc' = "request"
    /\ UNCHANGED <<req, unread, total_length, progress, canceled, image, file,
                   size, percent, updates, nreads, npolls, readsAtCancel,
                   retval, outcome, fault, requests, notified>>
    /\ UNCHANGED <<uvars, tvars>>

\* lines 30-50 and 77-79.  Only HTTPError is caught: a URLError or a timeout
\* leaves _http_request and http_download as an exception.  HTTPError takes
\* (url, code, msg, hdrs, fp), so the raise of line 46 is itself a TypeError.
HttpRequest ==
    /\ pc = "request"
    /\ requests' = requests + 1
    /\ CASE urlopen.kind = "URLError" ->
              /\ fault' = "URLError"
              /\ pc' = "raised"
              /\ UNCHANGED <<req, unread, notified, retval, outcome>>
         [] urlopen.kind = "HTTPError" ->
              /\ notified' = notified + 1
              /\ retval' = RetNone
              /\ outcome' = "NoStream"
              /\ pc' = "returned"
              /\ UNCHANGED <<req, unread, fault>>
         [] urlopen.kind = "response" /\ 400 <= urlopen.code /\ urlopen.code < 600 ->
              /\ req' = "open"
              /\ fault' = "TypeError"
              /\ pc' = "raised"
              /\ UNCHANGED <<unread, notified, retval, outcome>>
         [] OTHER ->
              /\ req' = "open"
              /\ unread' = body
              /\ pc' = "open"
              /\ UNCHANGED <<notified, retval, outcome, fault>>
    /\ UNCHANGED <<urlopen, body, content_length, checksum_arg, hash_alg,
                   dl_size, checksum, calc_checksum, total_length, progress,
                   canceled, image, file, size, percent, updates, nreads,
                   npolls, readsAtCancel, events>>
    /\ UNCHANGED <<uvars, tvars>>

\* lines 81-92: float() of the header, the dialog, the destination file
OpenDownload ==
    /\ pc = "open"
    /\ IF content_length = <<>>
       THEN /\ fault' = "TypeError"
            /\ pc' = "raised"
            /\ UNCHANGED <<total_length, progress, image, file, size, events>>
       ELSE /\ total_length' = content_length[1]
            /\ progress' = "created"
            /\ file' = "open"
            /\ image' = <<>>
            /\ size' = 0
            /\ events' = Append(events, Ev("create", <<>>))
            /\ pc' = "read"
            /\ UNCHANGED fault
    /\ UNCHANGED <<urlopen, body, content_length, checksum_arg, hash_alg,
                   dl_size, checksum, calc_checksum, req, unread, canceled,
                   percent, updates, nreads, npolls, readsAtCancel, retval,
                   outcome, requests, notified>>
    /\ UNCHANGED <<uvars, tvars>>

\* lines 94-101: one read; a non-empty chunk is written, hashed and counted,
\* and the percentage computed.  Leaving the with block closes the file.
ReadChunk ==
    /\ pc = "read"
    /\ nreads' = nreads + 1
    /\ LET chunk == NextChunk(unread) IN
       IF chunk = <<>>
       THEN /\ file' = "closed"
            /\ pc' = "checksum"
            /\ events' = Append(events, Ev("read", chunk))
            /\ UNCHANGED <<unread, image, calc_checksum, size, percent, fault>>
       ELSE /\ unread' = SubSeq(unread, Len(chunk) + 1, Len(unread))
            /\ image' = image \o chunk
            /\ calc_checksum' = Absorb(calc_checksum, chunk)
            /\ size' = size + Counted(chunk)
            /\ events' = events \o <<Ev("read", chunk), Ev("write", chunk)>>
                            \o (IF TruthyStr(checksum)
                                THEN <<Ev("hash", chunk)>> ELSE <<>>)
            /\ IF total_length = 0
               THEN /\ fault' = "ZeroDivisionError"
                    /\ file' = "closed"
                    /\ pc' = "raised"
                    /\ UNCHANGED percent
               ELSE /\ percent' = Percent(size', total_length)
                    /\ pc' = "poll"
                    /\ UNCHANGED <<file, fault>>
    /\ UNCHANGED <<urlopen, body, content_length, checksum_arg, hash_alg,
                   dl_size, checksum, req, total_length, progress, canceled,
                   updates, npolls, readsAtCancel, retval, outcome, requests,
                   notified>>
    /\ UNCHANGED <<uvars, tvars>>

\* Poll with the return of line 105 lost: the dialog and the stream are closed
\* and the loop goes on
PollKeepsReading ==
    /\ pc = "poll"
    /\ npolls' = npolls + 1
    /\ IF canceled
       THEN /\ progress' = "closed"
            /\ req' = "closed"
            /\ events' = events \o <<Ev("poll", <<>>), Ev("close", <<>>)>>
            /\ UNCHANGED updates
       ELSE /\ updates' = Append(updates, percent)
            /\ events' = events \o <<Ev("poll", <<>>), Ev("update", <<percent>>)>>
            /\ UNCHANGED <<progress, req>>
    /\ pc' = "read"
    /\ UNCHANGED <<urlopen, body, content_length, checksum_arg, hash_alg,
                   dl_size, checksum, calc_checksum, unread, total_length,
                   canceled, image, file, size, percent, nreads, readsAtCancel,
                   retval, outcome, fault, requests, notified>>
    /\ UNCHANGED <<uvars, tvars>>

\* lines 102-106: the cancellation poll and the progress update
Poll ==
    /\ pc = "poll"
    /\ npolls' = npolls + 1
    /\ IF canceled
       THEN /\ progress' = "closed"
            /\ req' = "closed"
            /\ file' = "closed"
            /\ retval' = RetFalse
            /\ outcome' = "Cancelled"
            /\ pc' = "returned"
            /\ events' = events \o <<Ev("poll", <<>>), Ev("close", <<>>)>>
            /\ UNCHANGED updates
       ELSE /\ updates' = Append(updates, percent)
            /\ events' = events \o <<Ev("poll", <<>>), Ev("update", <<percent>>)>>
            /\ pc' = "read"
            /\ UNCHANGED <<progress, req, file, retval, outcome>>
    /\ UNCHANGED <<urlopen, body, content_length, checksum_arg, hash_alg,
                   dl_size, checksum, calc_checksum, unread, total_length,
                   canceled, image, size, percent, nreads, readsAtCancel,
                   fault, requests, notified>>
    /\ UNCHANGED <<uvars, tvars>>

\* CheckChecksum comparing without regard to case
SameIgnoringCase(a, b) ==
    \/ a = b
    \/ \E i \in 11..16 : {a, b} = {HexDigit[i], <<"A", "B", "C", "D", "E", "F">>[i - 10]}

CheckChecksumIgnoringCase ==
    /\ pc = "checksum"
    /\ events' = IF TruthyStr(checksum)
                 THEN Append(events, Ev("compare", <<>>))
                 ELSE events
    /\ IF TruthyStr(checksum) /\ ~SameIgnoringCase(HexDigest(calc_checksum), checksum)
       THEN /\ retval' = RetFalse
            /\ outcome' = "ChecksumMismatch"
            /\ pc' = "returned"
       ELSE /\ pc' = "size"
            /\ UNCHANGED <<retval, outcome>>
    /\ UNCHANGED <<urlopen, body, content_length, checksum_arg, hash_alg,
                   dl_size, checksum, calc_checksum, req, unread, total_length,
                   progress, canceled, image, file, size, percent, updates,
                   nreads, npolls, readsAtCancel, fault, requests, notified>>
    /\ UNCHANGED <<uvars, tvars>>

\* lines 108-110
CheckChecksum ==
    /\ pc = "checksum"
    /\ events' = IF TruthyStr(checksum)
                 THEN Append(events, Ev("compare", <<>>))
                 ELSE events
    /\ IF TruthyStr(checksum) /\ ~(HexDigest(calc_checksum) = checksum)
       THEN /\ retval' = RetFalse
            /\ outcome' = "ChecksumMismatch"
            /\ pc' = "returned"
       ELSE /\ pc' = "size"
            /\ UNCHANGED <<retval, outcome>>
    /\ UNCHANGED <<urlopen, body, content_length, checksum_arg, hash_alg,
                   dl_size, checksum, calc_checksum, req, unread, total_length,
                   progress, canceled, image, file, size, percent, updates,
                   nreads, npolls, readsAtCancel, fault, requests, notified>>
    /\ UNCHANGED <<uvars, tvars>>

\* lines 112-119
CheckSize ==
    /\ pc = "size"
    /\ IF TruthyNum(dl_size) /\ ~(StatSize = dl_size[1])
       THEN /\ retval' = RetFalse
            /\ outcome' = "SizeMismatch"
            /\ pc' = "returned"
            /\ UNCHANGED <<progress, req, events>>
       ELSE /\ progress' = "closed"
            /\ req' = "closed"
            /\ events' = Append(events, Ev("close", <<>>))
            /\ retval' = RetSuccess
            /\ outcome' = "Success"
            /\ pc' = "returned"
    /\ UNCHANGED <<urlopen, body, content_length, checksum_arg, hash_alg,
                   dl_size, checksum, calc_checksum, unread, total_length,
                   canceled, image, file, size, percent, updates, nreads,
                   npolls, readsAtCancel, fault, requests, notified>>
    /\ UNCHANGED <<uvars, tvars>>

\* the user presses Cancel while the dialog is shown: iscanceled() is true
\* from then on
UserCancel ==
    /\ progress = "created"
    /\ pc \in {"read", "poll", "checksum", "size"}
    /\ ~canceled
    /\ canceled' = TRUE
    /\ readsAtCancel' = nreads
    /\ UNCHANGED <<pc, urlopen, body, content_length, checksum_arg, hash_alg,
                   dl_size, checksum, calc_checksum, req, unread, total_length,
                   progress, image, file, size, percent, updates, nreads,
                   npolls, retval, outcome, fault, requests, notified, events>>
    /\ UNCHANGED <<uvars, tvars>>

DNext ==
    \/ Call
    \/ HttpRequest
    \/ OpenDownload
    \/ ReadChunk
    \/ Poll
    \/ CheckChecksum
    \/ CheckSize
    \/ UserCancel

---------------------------------------------------------------------------
\* Paths.  A path is the sequence of its '/'-separated components, so an
\* absolute path starts with the empty component: "/e" is <<"", "e">> and
\* "../e" is <<"..", "e">>.

destination == <<"", "tmp", "dest">>

NameA == <<"a.txt">>
NameB == <<"b.txt">>
NameUp == <<"..", "e">>
NameAbs == <<"", "e">>

Names == {NameA, NameB, NameUp, NameAbs}

\* namelist() of an archive: up to MaxEntries entries with distinct names
Archives ==
    {z \in UNION {[1..n -> Names] : n \in 0..MaxEntries} :
        \A i, j \in DOMAIN z : z[i] = z[j] => i = j}

\* file_to_unzip: None is <<>>
Filters == {<<>>} \cup Names

Outside == <<"srv", "secret">>

\* os.path.join(a, b): an absolute b replaces a
PathJoin(a, b) == IF b # <<>> /\ b[1] = "" THEN b ELSE a \o b

\* the location the kernel resolves a path to: "" and "." are skipped and
\* ".." steps to the parent (no directory of the model is a symlink)
RECURSIVE Walk(_, _)
Walk(at, path) ==
    IF path = <<>> THEN at
    ELSE LET c == Head(path) IN
         IF c = "" \/ c = "." THEN Walk(at, Tail(path))
         ELSE IF c = ".."
              THEN Walk(IF at = <<>> THEN at ELSE SubSeq(at, 1, Len(at) - 1),
                        Tail(path))
              ELSE Walk(Append(at, c), Tail(path))

Locate(path) == Walk(<<>>, path)

\* ZipFile._extract_member: the member name loses its leading '/' and its
\* "", "." and ".." components before it is joined to the target directory
IsValidPart(c) == c \notin {"", ".", ".."}

ArcName(name) == SelectSeq(name, IsValidPart)

TargetPath(dest, name) == Locate(PathJoin(dest, ArcName(name)))

LinkSpots == {Locate(PathJoin(destination, NameA)),
              TargetPath(destination, NameUp),
              Locate(PathJoin(destination, NameUp)),
              Locate(PathJoin(destination, NameAbs))}

Locations == LinkSpots \cup {Locate(PathJoin(destination, NameB)), Outside}

Absent == [kind |-> "absent", data |-> <<>>]
OldFile == [kind |-> "file", data |-> <<"old">>]
LinkTo(target) == [kind |-> "link", data |-> target]
FileOf(name) == [kind |-> "file", data |-> name]

\* os.path.islink(path)
IsLink(f, path) == f[Locate(path)].kind = "link"

\* os.unlink(path)
Unlink(f, path) == [f EXCEPT ![Locate(path)] = Absent]

\* where open(location, "wb") puts the bytes: a symlink is followed
WriteLocation(f, loc) == IF f[loc].kind = "link" THEN f[loc].data ELSE loc

\* zip_obj.extract(filename, destination)
Extract(f, name, dest) ==
    [f EXCEPT ![WriteLocation(f, TargetPath(dest, name))] = FileOf(name)]

\* Skips with the comparison of line 132 inverted
SkipsTheMatch(filter, filename) ==
    filter \notin {<<>>, <<"">>} /\ filename = filter

\* line 132: if file_to_unzip and filename != file_to_unzip: continue
Skips(filter, filename) ==
    filter \notin {<<>>, <<"">>} /\ filename # filter

---------------------------------------------------------------------------
\* unzip

\* the file system before the first call: some of LinkSpots are symlinks to
\* Outside, which holds a file of its own
FsWith(links) ==
    [l \in Locations |->
        IF l \in links THEN LinkTo(Outside)
        ELSE IF l = Outside THEN OldFile ELSE Absent]

UInitWith(links) ==
    /\ upc = "idle"
    /\ fs = FsWith(links)
    /\ result_default = <<>>
    /\ archive = <<>>
    /\ file_to_unzip = <<>>
    /\ explicit = FALSE
    /\ result = <<>>
    /\ idx = 1
    /\ extracted = <<>>
    /\ elog = <<>>
    /\ uret = FALSE
    /\ ncalls = 0

UInit == \E links \in SUBSET LinkSpots : UInitWith(links)

\* lines 122-130: the call; result is the caller's fresh list or the one list
\* bound to the default argument when the function was defined
UnzipCall ==
    /\ upc \in {"idle", "returned"}
    /\ ncalls < MaxCalls
    /\ \E z \in Archives, f \in Filters, own \in BOOLEAN :
        /\ archive' = z
        /\ file_to_unzip' = f
        /\ explicit' = own
        /\ result' = IF own THEN <<>> ELSE result_default
    /\ idx' = 1
    /\ extracted' = <<>>
    /\ elog' = <<>>
    /\ ncalls' = ncalls + 1
    /\ upc' = "loop"
    /\ UNCHANGED <<fs, result_default, uret>>
    /\ UNCHANGED <<dvars, tvars>>

\* lines 131-142: one iteration of the loop over namelist()
UnzipEntry ==
    /\ upc = "loop"
    /\ idx <= Len(archive)
    /\ idx' = idx + 1
    /\ LET filename == archive[idx]
           fullname == PathJoin(destination, filename)
           unlinked == IF IsLink(fs, fullname) THEN Unlink(fs, fullname) ELSE fs
           target   == TargetPath(destination, filename)
       IN
       IF Skips(file_to_unzip, filename)
       THEN UNCHANGED <<fs, result, result_default, extracted, elog>>
       ELSE /\ fs' = Extract(unlinked, filename, destination)
            /\ result' = Append(result, TRUE)
            /\ result_default' = IF explicit THEN result_default ELSE result'
            /\ extracted' = Append(extracted, filename)
            /\ elog' = Append(elog,
                   [name     |-> filename,
                    fullname |-> Locate(fullname),
                    wasLink  |-> IsLink(fs, fullname),
                    removed  |-> IF IsLink(fs, fullname)
                                 THEN {Locate(fullname)} ELSE {},
                    target   |-> target,
                    wrote    |-> WriteLocation(unlinked, target)])
    /\ UNCHANGED <<upc, archive, file_to_unzip, explicit, uret, ncalls>>
    /\ UNCHANGED <<dvars, tvars>>

\* line 144: return bool(result)
UnzipReturn ==
    /\ upc = "loop"
    /\ idx > Len(archive)
    /\ uret' = (Len(result) > 0)
    /\ upc' = "returned"
    /\ UNCHANGED <<fs, result_default, archive, file_to_unzip, explicit,
                   result, idx, extracted, elog, ncalls>>
    /\ UNCHANGED <<dvars, tvars>>

UNext ==
    \/ UnzipCall
    \/ UnzipEntry
    \/ UnzipReturn

---------------------------------------------------------------------------
\* temp_path and update_temp_path.  Paths are component sequences as above; a
\* setting may start with Kodi's virtual prefix.

\* line 13: the default of get_setting('temp_path', ...)
DefaultSetting == <<"special://masterprofile", "addon_data">>

\* values the setting is given: the default, the same directory named by its
\* real path, and two other directories
SettingValues == {DefaultSetting, <<"userdata", "addon_data">>, <<"sd">>, <<"usb">>}

FileNames == {"a.zip", "b.zip"}

\* get_setting(key, default): the default stands in for an unset value
GetSetting(value) == IF value = <<>> THEN DefaultSetting ELSE value

\* translate_path: the virtual prefix becomes the user data directory
TranslatePath(path) ==
    IF path[1] = "special://masterprofile"
    THEN <<"userdata">> \o Tail(path)
    ELSE path

\* line 13: the path temp_path() returns for a stored setting
TempPath(value) == TranslatePath(Append(GetSetting(value), "temp"))

\* lines 14-15: mkdirs creates the directory and its missing parents
Prefixes(path) == {SubSeq(path, 1, k) : k \in 1..Len(path)}

Mkdirs(dirs, path) == dirs \cup Prefixes(path)

HasPrefix(path, pre) ==
    Len(path) >= Len(pre) /\ SubSeq(path, 1, Len(pre)) = pre

\* where a path is after os.rename(src, dst)
Renamed(path, src, dst) ==
    IF HasPrefix(path, src)
    THEN dst \o SubSeq(path, Len(src) + 1, Len(path))
    ELSE path

\* shutil.move(src, dst): an existing directory dst receives src inside it,
\* under src's own name
RealDst(dirs, src, dst) ==
    IF dst \in dirs THEN Append(dst, src[Len(src)]) ELSE dst

TInit ==
    /\ tpc = "idle"
    /\ stored = <<>>
    /\ tdirs = {}
    /\ tfiles = {}
    /\ tlast = [arg |-> <<>>, old |-> <<>>, new |-> <<>>, files |-> {}]
    /\ nupdates = 0

\* lines 85 and 91: a download puts a file into temp_path()
StoreFile ==
    /\ \E name \in FileNames :
        /\ Append(TempPath(stored), name) \notin tfiles
        /\ tfiles' = tfiles \cup {Append(TempPath(stored), name)}
    /\ tdirs' = Mkdirs(tdirs, TempPath(stored))
    /\ UNCHANGED <<tpc, stored, tlast, nupdates>>
    /\ UNCHANGED <<dvars, uvars>>

\* lines 20-27; each temp_path() call creates the directory it returns
UpdateTempPath ==
    /\ nupdates < MaxUpdates
    /\ nupdates' = nupdates + 1
    /\ \E new_temp_path \in SettingValues :
        LET old_temp_path == TempPath(stored)
            new_temp == TempPath(new_temp_path)
            dirs == Mkdirs(Mkdirs(tdirs, old_temp_path), new_temp)
            real_dst == RealDst(dirs, old_temp_path, new_temp)
        IN
        /\ stored' = new_temp_path
        /\ tlast' = [arg |-> new_temp_path, old |-> old_temp_path,
                     new |-> new_temp, files |-> tfiles]
        /\ IF old_temp_path = new_temp
           THEN /\ tdirs' = dirs
                /\ tfiles' = tfiles
                /\ tpc' = "updated"
           ELSE IF real_dst \in dirs \cup tfiles
           THEN /\ tdirs' = dirs
                /\ tfiles' = tfiles
                /\ tpc' = "raised"
           ELSE /\ tdirs' = {Renamed(d, old_temp_path, real_dst) : d \in dirs}
                /\ tfiles' = {Renamed(f, old_temp_path, real_dst) : f \in tfiles}
                /\ tpc' = "updated"
    /\ UNCHANGED <<dvars, uvars>>

TNext ==
    \/ StoreFile
    \/ UpdateTempPath

---------------------------------------------------------------------------
\* Specifications

Init == DInit /\ UInit /\ TInit

Next == DNext \/ UNext \/ TNext

Spec == Init /\ [][Next]_vars

\* one http_download call
InitDownload == DInit /\ UInitWith({}) /\ TInit

SpecDownload == InitDownload /\ [][DNext]_vars

\* a sequence of unzip calls
InitUnzip == DInit /\ UInit /\ TInit

SpecUnzip == InitUnzip /\ [][UNext]_vars

\* downloads into the temp directory and changes of the setting
InitTemp == DInit /\ UInitWith({}) /\ TInit

SpecTemp == InitTemp /\ [][TNext]_vars

---------------------------------------------------------------------------
\* Properties of http_download (checked under SpecDownload)

Terminated == pc \in {"returned", "raised"}

Supported == hash_alg \in {"sha1", "md5"}

\* C1: on every return reached after the stream and the dialog were opened
\* (success, cancellation, checksum mismatch, size mismatch) the stream and the
\* dialog are both closed.
C1_ClosedOnEveryExit ==
    (pc = "returned" /\ progress # "none")
        => (req = "closed" /\ progress = "closed")

\* C2 as stated: once the flag is true, whenever that happens, no further
\* chunk is read, nothing more is written, and the call returns Cancelled.
\* (Stated for a positive declared length, where the loop raises nothing.)
C2_StopsOnceFlagIsSet ==
    [][ total_length > 0 =>
          /\ canceled => (unread' = unread /\ image' = image)
          /\ (canceled' /\ pc' = "returned") => outcome' = "Cancelled" ]_vars

\* C2 amended: the flag is examined only by the poll that follows a written
\* chunk.  When that poll finds it set, the call reads and writes nothing more,
\* closes the dialog and the stream and returns False; until then a raised
\* flag lets at most one more read happen.
C2_StopsAtThePoll ==
    /\ [][ (pc = "poll" /\ canceled) =>
              /\ pc' = "returned"
              /\ outcome' = "Cancelled"
              /\ retval' = RetFalse
              /\ nreads' = nreads
              /\ unread' = unread
              /\ image' = image
              /\ progress' = "closed"
              /\ req' = "closed" ]_vars
    /\ [][ outcome = "Cancelled" => (nreads' = nreads /\ image' = image) ]_vars
    /\ [](canceled => nreads <= readsAtCancel + 1)

\* the flag was raised after a chunk was read, the poll saw it, and bytes of
\* the body were left unread
C2_Witness ==
    /\ outcome = "Cancelled"
    /\ readsAtCancel = nreads
    /\ nreads >= 1
    /\ unread # <<>>

\* C3: with a checksum requested under sha1 or md5, a digest of the downloaded
\* bytes that differs from the expected value (as strings, so by case too)
\* makes the call return a failure; Success implies the digests are equal.
C3_ChecksumGuardsSuccess ==
    (pc = "returned" /\ TruthyStr(checksum_arg) /\ Supported) =>
        /\ DigestOf(hash_alg, image) # checksum_arg => retval \in {RetFalse, RetNone}
        /\ retval = RetSuccess =>
              (DigestOf(hash_alg, image) = checksum_arg /\ image = body)

\* a body whose digest differs from the expected value by case alone is
\* rejected at the checksum step
C3_Witness ==
    /\ outcome = "ChecksumMismatch"
    /\ Supported
    /\ body # <<>>
    /\ checksum_arg = "D"
    /\ DigestOf(hash_alg, image) = "d"

\* C4: with an expected size given (0 included), a download that was not
\* cancelled and passed the checksum step returns Success exactly when the
\* file's size equals the expected size.
C4_SizeGuardsSuccess ==
    (pc = "returned" /\ dl_size # <<>> /\ outcome \in {"SizeMismatch", "Success"})
        => (retval = RetSuccess <=> Len(image) = dl_size[1])

\* C5: every percentage passed to progress.update is at most 100.
C5_PercentAtMost100 ==
    \A i \in DOMAIN updates : updates[i] <= 100

\* C6: with no content length, or a content length of zero, the call still
\* ends in one of its return statements, never in an exception.
C6_NoLengthNoFault ==
    (Terminated /\ req # "none" /\ urlopen.code = 200
       /\ content_length \in {<<>>, <<0>>})
        => (fault = "none" /\ pc = "returned")

\* C7: a connection error or an HTTP status in [400,600) shows the failure
\* notification and http_download returns None after one request, with no
\* destination file and no progress dialog.
NetworkFailure ==
    \/ urlopen.kind \in {"URLError", "HTTPError"}
    \/ (urlopen.kind = "response" /\ 400 <= urlopen.code /\ urlopen.code < 600)

C7_NetworkFailureIsReported ==
    (Terminated /\ NetworkFailure) =>
        /\ notified = 1
        /\ fault = "none"
        /\ retval = RetNone
        /\ requests = 1
        /\ file = "absent"
        /\ progress = "none"

\* the events of one kind, and what the chunks of a list of events add up to
IsRead(e) == e.op = "read"
IsWrite(e) == e.op = "write"
IsHash(e) == e.op = "hash"
IsPoll(e) == e.op = "poll"
IsCompare(e) == e.op = "compare"
IsDialog(e) == e.op \in {"create", "poll", "update", "close"}
IsChunkStep(e) == e.op \in {"write", "poll", "update", "close"}

Reads == SelectSeq(events, IsRead)
Writes == SelectSeq(events, IsWrite)
Hashes == SelectSeq(events, IsHash)

RECURSIVE Joined(_)
Joined(evs) == IF evs = <<>> THEN <<>> ELSE Head(evs).arg \o Joined(Tail(evs))

RECURSIVE SumLen(_)
SumLen(evs) == IF evs = <<>> THEN 0 ELSE Len(Head(evs).arg) + SumLen(Tail(evs))

\* C11: once the destination file is open, and so when the read loop is left,
\* the running byte count equals the sum of the lengths of the chunks written,
\* the size of the file, and the number of bytes the stream has delivered.
C11_ByteCountIsFileSize ==
    progress # "none" =>
        /\ size = SumLen(Writes)
        /\ size = StatSize
        /\ size = Len(body) - Len(unread)
        /\ image \o unread = body
        /\ (pc \in {"checksum", "size"} => size = Len(body))

\* the loop was left after a full chunk and a shorter last one
C11_Witness ==
    /\ pc = "checksum"
    /\ Len(Writes) = 2
    /\ Len(Writes[1].arg) = chunk_size
    /\ Len(Writes[2].arg) < chunk_size
    /\ size = Len(body)

\* C12: the percentages passed to progress.update never decrease from one
\* chunk to the next.
C12_PercentNeverDecreases ==
    \A i \in 1..(Len(updates) - 1) : updates[i] <= updates[i + 1]

\* two updates, the second larger than the first
C12_Witness ==
    /\ Len(updates) >= 2
    /\ updates[1] < updates[2]

\* C13: a checksum given with an algorithm other than sha1 or md5 is logged and
\* dropped: from the call on the locals are those of the same call made
\* without a checksum, which is all the later steps read; nothing is hashed,
\* no digest is compared and no checksum failure is returned.
C13_UnknownAlgorithmDisablesCheck ==
    (pc # "idle" /\ TruthyStr(checksum_arg) /\ ~Supported) =>
        /\ checksum = LocalChecksum(None, hash_alg)
        /\ calc_checksum = LocalHash(None, hash_alg)
        /\ events[1] = Ev("log", <<>>)
        /\ Hashes = <<>>
        /\ SelectSeq(events, IsCompare) = <<>>
        /\ outcome # "ChecksumMismatch"

\* a download with an unknown algorithm succeeds although no digest of the
\* body equals the checksum given
C13_Witness ==
    /\ outcome = "Success"
    /\ hash_alg = "sha256"
    /\ checksum_arg = "3"
    /\ body # <<>>
    /\ DigestOf("sha1", body) # "3"
    /\ DigestOf("md5", body) # "3"

\* C14: the value returned tells the outcome: Success exactly on the success
\* path, the failure value on a checksum or size failure, and on cancellation
\* a value different from the failure value.
C14_ValueIdentifiesOutcome ==
    pc = "returned" =>
        /\ retval = RetSuccess <=> outcome = "Success"
        /\ outcome \in {"ChecksumMismatch", "SizeMismatch"} => retval = RetFalse
        /\ outcome = "Cancelled" => retval # RetFalse

\* C17: with verification active, the hash has absorbed exactly the chunks
\* written to the file, in order, at every iteration; so the digest compared
\* after the loop is the digest of the file's content.
C17_HashFollowsFile ==
    (TruthyStr(checksum) /\ pc # "idle") =>
        /\ Hashes = [i \in DOMAIN Writes |-> Ev("hash", Writes[i].arg)]
        /\ Joined(Writes) = image
        /\ calc_checksum = HashUpdate(HashNew(hash_alg), image)
        /\ HexDigest(calc_checksum) = DigestOf(hash_alg, image)

\* the digest is about to be compared after two chunks were hashed
C17_Witness ==
    /\ pc = "checksum"
    /\ TruthyStr(checksum)
    /\ Len(Hashes) = 2
    /\ Len(Hashes[2].arg) < chunk_size

\* C18: the dialog is used in order.  create is its first call and happens
\* once; each chunk is written, then polled once, then updated; close happens
\* at most once and nothing follows it; a call that returns has polled once
\* per chunk written.
Dialog == SelectSeq(events, IsDialog)
ChunkSteps == SelectSeq(events, IsChunkStep)

C18_DialogProtocol ==
    /\ (progress # "none") <=> (Dialog # <<>>)
    /\ \A i \in DOMAIN Dialog : (Dialog[i].op = "create") <=> (i = 1)
    /\ \A i \in DOMAIN ChunkSteps :
        LET op == ChunkSteps[i].op
            before == IF i = 1 THEN "create" ELSE ChunkSteps[i - 1].op
        IN
        /\ op = "write" => before \in {"create", "update"}
        /\ op = "poll" => before = "write"
        /\ op = "update" => before = "poll"
        /\ op = "close" => (i = Len(ChunkSteps) /\ before \in {"create", "poll", "update"})
    /\ npolls = Len(SelectSeq(events, IsPoll))
    /\ (pc = "returned" /\ progress # "none") => npolls = Len(Writes)
    /\ (progress = "closed") <=>
          (ChunkSteps # <<>> /\ ChunkSteps[Len(ChunkSteps)].op = "close")

\* two chunks were written, polled and updated, and the dialog closed once
C18_Witness ==
    /\ outcome = "Success"
    /\ npolls = 2
    /\ Len(updates) = 2
    /\ progress = "closed"

\* C19: with a stream of finitely many chunks and a flag that never becomes
\* true, the call ends by returning, every delivered chunk is written, and the
\* first empty read is the last read.
C19_ReadsToTheEndAndReturns ==
    (Terminated /\ urlopen = [kind |-> "response", code |-> 200] /\ ~canceled) =>
        /\ pc = "returned"
        /\ image = body
        /\ Reads # <<>>
        /\ \A i \in DOMAIN Reads : (Reads[i].arg = <<>>) <=> (i = Len(Reads))

---------------------------------------------------------------------------
\* Properties of unzip (checked under SpecUnzip)

\* C8: a call made without a result argument returns success exactly when
\* that call itself extracted at least one entry.
C8_ReturnsItsOwnCount ==
    (upc = "returned" /\ ~explicit) => (uret <=> Len(extracted) > 0)

\* C9: for every extracted entry whose destination path (destination joined
\* with the entry name) was a symlink when the entry was reached, the link was
\* removed first, the entry was written at that path, and the path then holds
\* the entry as a regular file.
C9_SymlinkReplacedByEntry ==
    \A i \in DOMAIN elog :
        elog[i].wasLink =>
            /\ elog[i].removed = {elog[i].fullname}
            /\ elog[i].wrote = elog[i].fullname
            /\ (i = Len(elog) => fs[elog[i].fullname] = FileOf(elog[i].name))

\* C10: with file_to_unzip set, the entries extracted are exactly those whose
\* name equals it; without it, every entry is extracted, once, in archive
\* order.  It holds entry by entry while the loop runs.
NameIsFilter(n) == n = file_to_unzip

C10_ExtractsTheSelection ==
    upc \in {"loop", "returned"} =>
        LET seen == SubSeq(archive, 1, idx - 1) IN
        /\ extracted = (IF file_to_unzip # <<>>
                        THEN SelectSeq(seen, NameIsFilter)
                        ELSE seen)
        /\ Len(elog) = Len(extracted)
        /\ \A i \in DOMAIN elog : elog[i].name = extracted[i]
        /\ upc = "returned" => idx = Len(archive) + 1

\* a filtered call over a two-entry archive that extracted one entry and
\* skipped the other
C10_Witness ==
    /\ upc = "returned"
    /\ file_to_unzip # <<>>
    /\ Len(archive) = 2
    /\ archive[1] # archive[2]
    /\ Len(extracted) = 1

\* C16: for every archive, hostile entry names included, every symlink that
\* unzip removes lies inside the destination directory, and the path tested
\* for a symlink is the path the entry is extracted to.
InsideDestination(loc) ==
    LET d == Locate(destination) IN
    Len(loc) > Len(d) /\ SubSeq(loc, 1, Len(d)) = d

C16_TestedPathIsExtractedPath ==
    \A i \in DOMAIN elog :
        /\ \A loc \in elog[i].removed : InsideDestination(loc)
        /\ elog[i].fullname = elog[i].target

---------------------------------------------------------------------------
\* Properties of update_temp_path (checked under SpecTemp)

\* the names of the files directly inside a directory
NamesIn(files, dir) ==
    {f[Len(f)] : f \in {g \in files : Len(g) = Len(dir) + 1 /\ HasPrefix(g, dir)}}

\* C15: after update_temp_path(new) the setting holds the new path; when the
\* resolved directory changed, every file that was at old_temp/<name> is at
\* new_temp/<name> and no longer at old_temp/<name>; when it did not change,
\* no file was moved.
C15_FilesFollowTheSetting ==
    (tpc = "updated" /\ stored = tlast.arg /\ TempPath(stored) = tlast.new) =>
        IF tlast.old # tlast.new
        THEN \A name \in NamesIn(tlast.files, tlast.old) :
                /\ Append(tlast.new, name) \in tfiles
                /\ Append(tlast.old, name) \notin tfiles
        ELSE tlast.files \subseteq tfiles

=============================================================================
